---- MODULE Spec2Model ----
(***************************************************************************)
(* PluginRegistry (plugin registration, bootstrap state, service           *)
(* lifecycle) over a shared persisted plugin-state store.                  *)
(*                                                                         *)
(* Each registry is one host process.  register and registerPlugin are     *)
(* modelled one await at a time, so that the calls of two registries on    *)
(* the shared store can interleave; deletePlugin, startServices,           *)
(* stopServices and the getters touch only the registry's own tables and   *)
(* are one action each.  The state-row deletion that deletePlugin starts   *)
(* without awaiting it is a separate step of the store.                    *)
(***************************************************************************)
EXTENDS Integers, Sequences, FiniteSets, TLC

\* ------------------------------------------------------------- bounds

\* Calls (register, deletePlugin, startServices, stopServices, getter)
\* started over a run.
MaxCalls == 3

\* register calls started over a run of racing host processes.
MaxRaceCalls == 2

\* Declarations in one register batch.
MaxBatch == 2

\* Times withTransaction re-runs its body after a transient error.
MaxRetries == 1

\* register and deletePlugin calls started over a run on one alias.
MaxDeleteCalls == 5

\* register calls started over a run with a Generative.
MaxGenCalls == 2

\* register calls and SourceService requests started over a run.
MaxSourceCalls == 5

\* Source documents created over a run.
MaxSources == 1

\* ---------------------------------------------------------- the inputs

Reg == {"R1", "R2"}

\* "7" is an alias that is an integer index as an object key.
Aliases == {"a1", "a2", "7"}

None == "undefined"

\* manifest.type values with a capability table, and the table of each.
PluginTypes ==
  {"provider", "file_parser", "storage", "database", "text_vectorizer",
   "image_vectorizer", "multimodal_vectorizer", "reranker", "generative",
   "enhancer"}

CapTables ==
  {"providers", "fileParsers", "storage", "database", "enhancers",
   "generative", "rerankers", "textVectorizers", "imageVectorizers",
   "multimodalVectorizers"}

TableNames == {"plugins"} \cup CapTables

\* The plugin modules a declaration's path can name.  pBroken has no valid
\* manifest; pProvider declares a config schema.  pGenerative is registered
\* only in the runs with a Generative.
Paths == {"pProvider", "pStorage", "pBroken", "pGenerative"}

NoManifest == [name |-> None, type |-> None, runtime |-> None]

ManifestOf(path) ==
  CASE path = "pProvider" ->
         [name |-> "prov", type |-> "provider", runtime |-> "service"]
    [] path = "pStorage" ->
         [name |-> "stor", type |-> "storage", runtime |-> None]
    [] path = "pGenerative" ->
         [name |-> "gen", type |-> "generative", runtime |-> None]
    [] OTHER -> NoManifest

HasConfigSchema(path) == path = "pProvider"

\* Resolved configurations: a string apiKey with an undeclared extra key,
\* a numeric apiKey, and the empty object.
CfgGood == [apiKey |-> "string", extra |-> TRUE]
CfgBad == [apiKey |-> "number", extra |-> FALSE]
CfgEmpty == [apiKey |-> "absent", extra |-> FALSE]
CfgUndefined == [apiKey |-> None, extra |-> FALSE]

Configs == {CfgGood, CfgBad}

\* The Registrations the host passes: {alias, path, config}.  a1 comes as a
\* provider with either config and as a storage module, a2 as a provider,
\* as a storage module and with a path that yields no manifest, 7 as a
\* provider and as a storage module.
Decls ==
  {[alias |-> "a1", path |-> "pProvider", config |-> CfgGood],
   [alias |-> "a1", path |-> "pProvider", config |-> CfgBad],
   [alias |-> "a1", path |-> "pStorage", config |-> CfgUndefined],
   [alias |-> "a2", path |-> "pProvider", config |-> CfgGood],
   [alias |-> "a2", path |-> "pStorage", config |-> CfgUndefined],
   [alias |-> "a2", path |-> "pBroken", config |-> CfgUndefined],
   [alias |-> "7", path |-> "pProvider", config |-> CfgGood],
   [alias |-> "7", path |-> "pStorage", config |-> CfgUndefined]}

\* The batches of two declarations and more.
Batches == UNION {[1..n -> Decls] : n \in 2..MaxBatch}

\* The generative plugins the host registers.
GenDecls ==
  {[alias |-> "a1", path |-> "pGenerative", config |-> CfgUndefined],
   [alias |-> "a2", path |-> "pGenerative", config |-> CfgUndefined]}

\* The model names asked for; no plugin lists m3.
ModelNames == {"m1", "m2", "m3"}

\* The names of the models that the getSupportedModels task of a
\* generative plugin returns.
SupportedModels(alias) ==
  CASE alias = "a1" -> <<"m1">>
    [] alias = "a2" -> <<"m1", "m2">>
    [] OTHER -> <<>>

\* settings.generative.name, the default provider: a1, a2, or None for a
\* project without the generative module.
GenSettings == {"a1", "a2", None}

\* getGenerative's params: {model}, {alias, model}, {alias}, {}.
GenParams ==
  [alias : {None}, model : ModelNames \cup {None}]
    \cup [alias : {"a1", "nonexistent"}, model : {None, "m2"}]

NoGenOp == [alias |-> None, model |-> None, error |-> None, provider |-> None]

\* The provider plugin the sources are created for.
ProviderDecl == [alias |-> "a1", path |-> "pProvider", config |-> CfgGood]

\* The requests the SourceService serves at a time.
Requests == {"q1", "q2"}

\* The operations on a source; "connect" stands for initSource,
\* rebuildSource and updateSource too, which write no document either.
SourceOps ==
  {"connect", "delete", "verifyConnection", "listEntrypoints",
   "setEntrypoint"}

\* What the provider's verifyConnection does: it throws, or returns
\* {isValid, credentials?}.
VerifyOutcomes ==
  {[throws |-> TRUE, isValid |-> FALSE, credentials |-> None],
   [throws |-> FALSE, isValid |-> FALSE, credentials |-> None],
   [throws |-> FALSE, isValid |-> TRUE, credentials |-> None],
   [throws |-> FALSE, isValid |-> TRUE, credentials |-> "c1"]}

NoReq ==
  [op |-> "none", id |-> 0, pc |-> "idle", connected |-> FALSE,
   isValid |-> FALSE, credentials |-> None, error |-> None]

\* ----------------------------------------------------------- the state

VARIABLES
  rows,         \* persisted store: the committed state rows
  txw,          \* per registry: the row its open transaction has written
  pendingDel,   \* per alias: deleteOne calls started and not yet applied
  manifests,    \* per registry: _manifests
  tables,       \* per registry: plugins and the ten capability tables
  pc,           \* per registry: where its call in progress stands
  batch,        \* per registry: the argument of the register call
  idx,          \* per registry: the loop index in the batch
  errors,       \* per registry: the errors array of the register call
  cur,          \* per registry: registerPlugin's locals for the declaration
  outcome,      \* per registry: what happened to each declaration (log)
  retries,      \* per registry: re-runs of the transaction body so far
  boots,        \* per identity: bootstrap invocations, and those completed
  lastOp,       \* per registry: the last call that returned, its result
  everIn,       \* per registry: the <<table, alias>> ever stored (log)
  destroyFailed,\* per alias: its last deletePlugin threw at destroy (log)
  objs,         \* PluginRunner objects loaded so far: the next one's identity
  calls,        \* calls started so far
  genPc,        \* Generative: not constructed, init running, ended, failed
  settings,     \* Generative: _ctx.settings.generative, its name
  initPlugins,  \* Generative.init: its const plugins
  initAt,       \* Generative.init: the loop index
  models,       \* Generative: _models
  genOp,        \* Generative: the last getGenerative call and its result
  sources,      \* SourceService: the source documents, by order of creation
  req,          \* SourceService: per request, the call and where it stands
  listed        \* the sources listEntrypointOptions was called for (log)

\* The state of the Generative module.
genVars == <<genPc, settings, initPlugins, initAt, models, genOp>>

\* The state of the SourceService and its collection.
sourceVars == <<sources, req, listed>>

\* The state outside the PluginRegistry and the plugin-state store.
extVars == <<genVars, sourceVars>>

vars ==
  <<rows, txw, pendingDel, manifests, tables, pc, batch, idx, errors, cur,
    outcome, retries, boots, lastOp, everIn, destroyFailed, objs, calls,
    genVars, sourceVars>>

storeVars == <<rows, txw, pendingDel>>
callVars == <<pc, batch, idx, errors, cur, outcome, retries>>

\* ------------------------------------------------------ pure functions

\* uuid.v5(name, namespace): a name-based id, a function of the two strings
\* alone, and taken to be free of collisions.
uuid5(name, namespace) == [ns |-> namespace, name |-> name]

\* The id computed from the declaration's path.
IdOfPath(plugin) == uuid5(plugin.path, "URL")

\* const id = uuid.v5(plugin.alias, uuid.v5.URL)
IdOf(plugin) == uuid5(plugin.alias, "URL")

\* defaultConfigLoader: plugin.config || {} .
defaultConfigLoader(plugin) ==
  IF plugin.config = CfgUndefined THEN CfgEmpty ELSE plugin.config

\* configSchema.parse(config): a ZodError for a config that does not fit,
\* else the parsed value, which drops the keys the schema does not declare.
SchemaAccepts(config) == config.apiKey = "string"

SchemaParse(config) == [apiKey |-> config.apiKey, extra |-> FALSE]

\* The capability table registerPlugin's if-chain picks for a manifest type.
TableOfType(type) ==
  CASE type = "provider" -> "providers"
    [] type = "file_parser" -> "fileParsers"
    [] type = "storage" -> "storage"
    [] type = "database" -> "database"
    [] type = "text_vectorizer" -> "textVectorizers"
    [] type = "image_vectorizer" -> "imageVectorizers"
    [] type = "multimodal_vectorizer" -> "multimodalVectorizers"
    [] type = "reranker" -> "rerankers"
    [] type = "generative" -> "generative"
    [] type = "enhancer" -> "enhancers"
    [] OTHER -> None

\* A table is a JS object with string keys: its entries in insertion order.
Keys(tbl) == {tbl[i].alias : i \in 1..Len(tbl)}

NoPlugin ==
  [id |-> [ns |-> None, name |-> None], alias |-> None,
   manifest |-> NoManifest,
   runner |-> [obj |-> 0, pluginPath |-> None, pluginConfig |-> CfgUndefined]]

\* tbl[alias]
Lookup(tbl, alias) ==
  IF alias \in Keys(tbl)
    THEN tbl[CHOOSE i \in 1..Len(tbl) : tbl[i].alias = alias]
    ELSE NoPlugin

\* An assignment that leaves an existing key's value alone.
PutKeepFirst(tbl, loaded) ==
  IF loaded.alias \in Keys(tbl) THEN tbl ELSE Append(tbl, loaded)

\* The integer an alias is the canonical form of, when it is an integer
\* index as an object key, and -1 when it is not.
ArrayIndex(alias) == CASE alias = "7" -> 7 [] OTHER -> -1

\* tbl[alias] = loaded, the table in the order in which Object.values
\* enumerates it: an existing key keeps its place; a new key that is an
\* integer index goes among the integer indices, in ascending order and
\* before every other key; any other new key goes last.
Put(tbl, loaded) ==
  IF loaded.alias \in Keys(tbl)
    THEN [i \in 1..Len(tbl) |->
            IF tbl[i].alias = loaded.alias THEN loaded ELSE tbl[i]]
  ELSE IF ArrayIndex(loaded.alias) >= 0
    THEN LET Below(e) == /\ ArrayIndex(e.alias) >= 0
                         /\ ArrayIndex(e.alias) < ArrayIndex(loaded.alias)
         IN SelectSeq(tbl, Below) \o <<loaded>>
              \o SelectSeq(tbl, LAMBDA e : ~Below(e))
  ELSE Append(tbl, loaded)

\* delete tbl[alias]
Remove(tbl, alias) == SelectSeq(tbl, LAMBDA e : e.alias # alias)

\* pluginState.findOne({alias}, {}): run without the session, it reads the
\* committed store.
FindOne(alias) == {s \in rows : s.alias = alias}

\* A manifest type that getInstance's switch has no case for.
OtherType == "custom"

\* getInstance with the reranker case building the text vectorizer variant.
InstanceClassOfSwapped(type) ==
  CASE type = "file_parser" -> "FileParserPluginInstance"
    [] type = "provider" -> "ProviderPluginInstance"
    [] type = "storage" -> "StoragePluginInstance"
    [] type = "text_vectorizer" -> "TextVectorizerPluginInstance"
    [] type = "image_vectorizer" -> "ImageVectorizerPluginInstance"
    [] type = "multimodal_vectorizer" -> "MultimodalVectorizerPluginInstance"
    [] type = "reranker" -> "TextVectorizerPluginInstance"
    [] type = "database" -> "DatabasePluginInstance"
    [] type = "enhancer" -> "EnhancerPluginInstance"
    [] type = "generative" -> "GenerativePluginInstance"
    [] OTHER -> "PluginInstance"

\* getInstance's switch over plugin.manifest.type: the variant constructed.
InstanceClassOf(type) ==
  CASE type = "file_parser" -> "FileParserPluginInstance"
    [] type = "provider" -> "ProviderPluginInstance"
    [] type = "storage" -> "StoragePluginInstance"
    [] type = "text_vectorizer" -> "TextVectorizerPluginInstance"
    [] type = "image_vectorizer" -> "ImageVectorizerPluginInstance"
    [] type = "multimodal_vectorizer" -> "MultimodalVectorizerPluginInstance"
    [] type = "reranker" -> "RerankerPluginInstance"
    [] type = "database" -> "DatabasePluginInstance"
    [] type = "enhancer" -> "EnhancerPluginInstance"
    [] type = "generative" -> "GenerativePluginInstance"
    [] OTHER -> "PluginInstance"

\* static methods of a variant, which its constructor hands to the base
\* class as the methods the instance exposes: RerankerPluginInstance's list,
\* the provider's operations, the operation the generative engine calls.
\* The base PluginInstance has none; the lists of the other variants are
\* not among the sources.
StaticMethods(class) ==
  CASE class = "RerankerPluginInstance" -> {"rerank"}
    [] class = "ProviderPluginInstance" ->
         {"connect", "verifyConnection", "listEntrypointOptions",
          "handleEntrypointUpdate"}
    [] class = "GenerativePluginInstance" -> {"getSupportedModels"}
    [] OTHER -> {}

NoInstance == [class |-> None, methods |-> {}, type |-> None]

\* new <Variant>PluginInstance(plugin, {}, this.resources)
NewInstance(plugin) ==
  [class |-> InstanceClassOf(plugin.manifest.type),
   methods |-> StaticMethods(InstanceClassOf(plugin.manifest.type)),
   type |-> plugin.manifest.type]

\* ------------------------------------------------------------ register

NoCur ==
  [alias |-> None, loaded |-> NoPlugin, config |-> CfgUndefined,
   tasks |-> {}, rowBefore |-> None, boots |-> 0, cfgAtInit |-> CfgUndefined,
   saved |-> FALSE, seen |-> [a \in Aliases |-> NoManifest]]

NoOp ==
  [op |-> "none", alias |-> None, invoked |-> <<>>, throwers |-> {},
   error |-> None, value |-> NoPlugin, instance |-> NoInstance]

Init ==
  /\ rows = {}
  /\ txw = [r \in Reg |-> {}]
  /\ pendingDel = [a \in Aliases |-> 0]
  /\ manifests = [r \in Reg |-> [a \in Aliases |-> NoManifest]]
  /\ tables = [r \in Reg |-> [t \in TableNames |-> <<>>]]
  /\ pc = [r \in Reg |-> "idle"]
  /\ batch = [r \in Reg |-> <<>>]
  /\ idx = [r \in Reg |-> 0]
  /\ errors = [r \in Reg |-> <<>>]
  /\ cur = [r \in Reg |-> NoCur]
  /\ outcome = [r \in Reg |-> <<>>]
  /\ retries = [r \in Reg |-> 0]
  /\ boots = [a \in Aliases |-> [invoked |-> 0, completed |-> 0]]
  /\ lastOp = [r \in Reg |-> NoOp]
  /\ everIn = [r \in Reg |-> {}]
  /\ destroyFailed = [a \in Aliases |-> FALSE]
  /\ objs = 0
  /\ calls = 0
  /\ genPc = "none"
  /\ settings = None
  /\ initPlugins = <<>>
  /\ initAt = 1
  /\ models = [m \in ModelNames |-> <<>>]
  /\ genOp = NoGenOp
  /\ sources = <<>>
  /\ req = [q \in Requests |-> NoReq]
  /\ listed = {}

Idle == \A r \in Reg : pc[r] = "idle"

\* new PluginRegistry.Error(message, {alias, path, manifest}, causedBy)
RegistryError(message, alias, path, manifest) ==
  [isRegistryError |-> TRUE, message |-> message, alias |-> alias,
   path |-> path, manifest |-> manifest]

\* What a runner, a schema, a task or the store throws: no PluginRegistry.Error.
Thrown(message) ==
  [isRegistryError |-> FALSE, message |-> message, alias |-> None,
   path |-> None, manifest |-> NoManifest]

\* Phase 1's catch pushing whatever it caught.
CatchPhase1Any(errs, e) == Append(errs, e)

\* Phase 1's catch: e instanceof PluginRegistry.Error && errors.push(e)
CatchPhase1(errs, e) == IF e.isRegistryError THEN Append(errs, e) ELSE errs

\* Phase 2's catch with phase 1's body: only a PluginRegistry.Error is pushed.
CatchPhase2Drop(errs, e, plugin, cached) ==
  IF e.isRegistryError THEN Append(errs, e) ELSE errs

\* Phase 2's catch: a PluginRegistry.Error is pushed as it is, anything else
\* wrapped with the declaration's alias and path and the cached manifest.
CatchPhase2(errs, e, plugin, cached) ==
  IF e.isRegistryError
    THEN Append(errs, e)
    ELSE Append(errs, RegistryError("Failed to register plugin",
                                    plugin.alias, plugin.path, cached))

\* const alias = plugin.alias || manifest.name
AliasOf(plugin, manifest) ==
  IF plugin.alias = "" THEN manifest.name ELSE plugin.alias

Plugin(r) == batch[r][idx[r]]

\* One line of the log: what registerPlugin, its locals being c, did for the
\* declaration, whether the flat table held the alias before, and the state
\* rows of the alias it left.
Outcome(r, c, ok, threw, stored) ==
  [alias |-> Plugin(r).alias, path |-> Plugin(r).path, ok |-> ok,
   threw |-> threw, tasks |-> c.tasks, rowBefore |-> c.rowBefore,
   boots |-> c.boots, cfgAtInit |-> c.cfgAtInit, saved |-> c.saved,
   obj |-> c.loaded.runner.obj,
   flatBefore |-> Plugin(r).alias \in Keys(tables[r]["plugins"]),
   rowsAfter |-> Cardinality({s \in stored : s.alias = c.alias})]

\* The next declaration of phase 2, or register returns.
Advance(r) ==
  /\ cur' = [cur EXCEPT ![r] = NoCur]
  /\ retries' = [retries EXCEPT ![r] = 0]
  /\ batch' = batch
  /\ IF idx[r] < Len(batch[r])
       THEN /\ idx' = [idx EXCEPT ![r] = idx[r] + 1]
            /\ pc' = [pc EXCEPT ![r] = "rp_manifest"]
            /\ lastOp' = lastOp
       ELSE /\ idx' = [idx EXCEPT ![r] = 0]
            /\ pc' = [pc EXCEPT ![r] = "done"]
            /\ lastOp' = [lastOp EXCEPT ![r] = [NoOp EXCEPT !.op = "register"]]

\* registerPlugin, its locals being c, throws e at step `threw`: register's
\* catch, then the loop.
Fail(r, c, e, threw) ==
  /\ errors' = [errors EXCEPT ![r] =
                  CatchPhase2(errors[r], e, Plugin(r),
                              manifests[r][Plugin(r).alias])]
  /\ outcome' = [outcome EXCEPT ![r] =
                   Append(@, Outcome(r, c, FALSE, threw, rows))]
  /\ Advance(r)

\* What a step of registerPlugin that only moves on leaves alone.
stepFrame ==
  <<rows, txw, pendingDel, manifests, tables, batch, idx, errors, outcome,
    retries, boots, lastOp, everIn, destroyFailed, objs, calls>>

\* What a throw out of registerPlugin leaves alone.
failFrame ==
  <<rows, txw, pendingDel, manifests, tables, boots, everIn, destroyFailed,
    objs, calls>>

\* register(plugins) is called.
StartRegister(r, plugins) ==
  /\ pc[r] = "idle"
  /\ pc' = [pc EXCEPT ![r] = "phase1"]
  /\ batch' = [batch EXCEPT ![r] = plugins]
  /\ idx' = [idx EXCEPT ![r] = 1]
  /\ errors' = [errors EXCEPT ![r] = <<>>]
  /\ outcome' = [outcome EXCEPT ![r] = <<>>]
  /\ cur' = [cur EXCEPT ![r] = NoCur]
  /\ retries' = [retries EXCEPT ![r] = 0]
  /\ UNCHANGED <<storeVars, manifests, tables, everIn, destroyFailed, objs,
                 boots, lastOp>>
  /\ UNCHANGED extVars

\* A call is started within the run's budget of calls.
Budget ==
  /\ calls < MaxCalls
  /\ calls' = calls + 1

\* Phase 1 leaving the cache as it is.
Phase1CacheSkipped(ms, alias, manifest) == ms

\* this._manifests[plugin.alias] = manifest, in phase 1
Phase1Cache(ms, alias, manifest) == [ms EXCEPT ![alias] = manifest]

\* Phase 1, one declaration: getManifest, cached by alias, or the catch.
Phase1(r) ==
  /\ pc[r] = "phase1"
  /\ LET plugin == Plugin(r)
         manifest == ManifestOf(plugin.path)
     IN IF manifest # NoManifest
          THEN /\ manifests' = [manifests EXCEPT ![r] =
                                    Phase1Cache(@, plugin.alias, manifest)]
               /\ errors' = errors
          ELSE /\ manifests' = manifests
               /\ errors' = [errors EXCEPT ![r] =
                               CatchPhase1(@, Thrown("ManifestError"))]
  /\ IF idx[r] < Len(batch[r])
       THEN /\ idx' = [idx EXCEPT ![r] = idx[r] + 1]
            /\ pc' = pc
       ELSE /\ idx' = [idx EXCEPT ![r] = 1]
            /\ pc' = [pc EXCEPT ![r] = "rp_manifest"]
  /\ UNCHANGED <<storeVars, tables, everIn, destroyFailed, objs, batch, cur,
                 outcome,
                 retries, boots, lastOp, calls>>
  /\ UNCHANGED extVars

\* registerPlugin: the id, getManifest again, the cache, the resolved config
\* and the runner.  The configLoader configured looks manifests up through
\* the getManifest it is handed (seen: what each alias yields at that moment)
\* and returns nothing, so the config is the default loader's.
RegisterPluginManifest(r) ==
  /\ pc[r] = "rp_manifest"
  /\ LET plugin == Plugin(r)
         manifest == ManifestOf(plugin.path)
     IN IF manifest = NoManifest
          THEN /\ Fail(r, cur[r], Thrown("ManifestError"), "getManifest")
               /\ UNCHANGED failFrame
          ELSE /\ manifests' = [manifests EXCEPT ![r][plugin.alias] = manifest]
               /\ objs' = objs + 1
               /\ cur' = [cur EXCEPT ![r] =
                    [NoCur EXCEPT
                       !.alias = AliasOf(plugin, manifest),
                       !.config = defaultConfigLoader(plugin),
                       !.seen = [manifests[r] EXCEPT ![plugin.alias] = manifest],
                       !.loaded =
                         [id |-> IdOf(plugin),
                          alias |-> AliasOf(plugin, manifest),
                          manifest |-> manifest,
                          runner |->
                            [obj |-> objs + 1,
                             pluginPath |-> plugin.path,
                             pluginConfig |-> defaultConfigLoader(plugin)]]]]
               /\ pc' = [pc EXCEPT ![r] = "rp_load"]
               /\ UNCHANGED <<storeVars, tables, batch, idx, errors, outcome,
                              retries, boots, lastOp, everIn, destroyFailed,
                              calls>>
  /\ UNCHANGED extVars

\* await runner.load()
RunnerLoad(r, throws) ==
  /\ pc[r] = "rp_load"
  /\ LET c == [cur[r] EXCEPT !.tasks = @ \cup {"load"}]
     IN IF throws
          THEN /\ Fail(r, c, Thrown("load"), "load")
               /\ UNCHANGED failFrame
          ELSE /\ cur' = [cur EXCEPT ![r] = c]
               /\ pc' = [pc EXCEPT ![r] = "rp_schema"]
               /\ UNCHANGED stepFrame
  /\ UNCHANGED extVars

\* The parsed value dropped: the runner keeps the config it was built with.
ValidatedConfigKept(path, config, pluginConfig) == pluginConfig

\* if (configSchema) loaded.runner.config.pluginConfig = parsed
ValidatedConfig(path, config, pluginConfig) ==
  IF HasConfigSchema(path) THEN SchemaParse(config) ELSE pluginConfig

\* initialize left out: the transaction follows the config schema.
AfterValidateNoInit == "tx_find"

\* After the config schema: await runner.initialize()
AfterValidate == "rp_init"

\* The config schema: getSchema('config'), parse, the runner's pluginConfig.
ValidateConfig(r, getSchemaThrows) ==
  /\ pc[r] = "rp_schema"
  /\ LET plugin == Plugin(r)
         loaded == cur[r].loaded
     IN IF getSchemaThrows
          THEN /\ Fail(r, cur[r],
                       RegistryError("Failed to parse plugin config",
                                     loaded.alias, plugin.path,
                                     loaded.manifest), "getSchema")
               /\ UNCHANGED failFrame
          ELSE IF HasConfigSchema(plugin.path) /\ ~SchemaAccepts(cur[r].config)
          THEN /\ Fail(r, cur[r],
                       RegistryError("Invalid plugin config",
                                     loaded.alias, plugin.path,
                                     loaded.manifest), "config")
               /\ UNCHANGED failFrame
          ELSE /\ cur' = [cur EXCEPT ![r].loaded.runner.pluginConfig =
                            ValidatedConfig(plugin.path, cur[r].config, @)]
               /\ pc' = [pc EXCEPT ![r] = AfterValidate]
               /\ UNCHANGED stepFrame
  /\ UNCHANGED extVars

\* await runner.initialize()
RunnerInitialize(r, throws) ==
  /\ pc[r] = "rp_init"
  /\ LET loaded == cur[r].loaded
         c == [cur[r] EXCEPT !.tasks = @ \cup {"initialize"},
                             !.cfgAtInit = loaded.runner.pluginConfig]
     IN IF throws
          THEN /\ Fail(r, c,
                       RegistryError("Failed to initialize plugin",
                                     loaded.alias, Plugin(r).path,
                                     loaded.manifest), "initialize")
               /\ UNCHANGED failFrame
          ELSE /\ cur' = [cur EXCEPT ![r] = c]
               /\ pc' = [pc EXCEPT ![r] = "tx_find"]
               /\ UNCHANGED stepFrame
  /\ UNCHANGED extVars

\* ------------------------------------- the bootstrap transaction

\* new this.models.pluginState({_id: id, manifest, alias: loaded.alias})
StateRow(loaded) ==
  [_id |-> loaded.id, alias |-> loaded.alias, manifest |-> loaded.manifest]

\* The bootstrap task run whether or not a row was found.
AfterFindAlways(found) == IF found THEN "tx_boot" ELSE "tx_save"

\* if (!state) { save; bootstrap }: where the body goes after findOne.
AfterFind(found) == IF found THEN "tx_commit" ELSE "tx_save"

\* The transaction body starts: findOne({alias}).
TxFindOne(r) ==
  /\ pc[r] = "tx_find"
  /\ LET found == FindOne(cur[r].alias) # {}
     IN /\ cur' = [cur EXCEPT ![r].rowBefore =
                     IF @ # None THEN @
                     ELSE IF found THEN "found" ELSE "absent"]
        /\ pc' = [pc EXCEPT ![r] = AfterFind(found)]
  /\ UNCHANGED stepFrame
  /\ UNCHANGED extVars

\* state.save() without the session: the insert is committed at once.
SaveWithoutSession == FALSE

\* state.save({ session }): the insert is a write of the transaction.
SaveWithSession == TRUE

\* await state.save({session}).  A committed row with the _id is a duplicate
\* key, which withTransaction rethrows; another open transaction's insert of
\* the _id is a write conflict, a transient error on which withTransaction
\* aborts and runs the body again until it gives up.
TxSave(r) ==
  /\ pc[r] = "tx_save"
  /\ LET row == StateRow(cur[r].loaded)
     IN IF \E s \in rows : s._id = row._id
          THEN /\ Fail(r, cur[r], Thrown("duplicate key"), "save")
               /\ UNCHANGED failFrame
          ELSE IF \E q \in Reg \ {r} : \E s \in txw[q] : s._id = row._id
          THEN IF retries[r] < MaxRetries
                 THEN /\ retries' = [retries EXCEPT ![r] = @ + 1]
                      /\ pc' = [pc EXCEPT ![r] = "tx_find"]
                      /\ UNCHANGED <<storeVars, manifests, tables, everIn,
                                     destroyFailed,
                                     objs, batch, idx, errors, cur, outcome,
                                     boots, lastOp, calls>>
                 ELSE /\ Fail(r, cur[r], Thrown("write conflict"), "save")
                      /\ UNCHANGED failFrame
          ELSE /\ IF SaveWithSession
                    THEN /\ txw' = [txw EXCEPT ![r] = {row}]
                         /\ rows' = rows
                    ELSE /\ txw' = txw
                         /\ rows' = rows \cup {row}
               /\ cur' = [cur EXCEPT ![r].saved = TRUE]
               /\ pc' = [pc EXCEPT ![r] = "tx_boot"]
               /\ UNCHANGED <<pendingDel, manifests, tables, everIn,
                              destroyFailed, objs,
                              batch, idx, errors, outcome, retries, boots,
                              lastOp, calls>>
  /\ UNCHANGED extVars

\* An abort that leaves the transaction's writes open.
AbortedWritesKept(w) == w

\* withTransaction aborts: the writes of the transaction are gone.
AbortedWrites(w) == {}

\* await instance.runTask('bootstrap')({}): a throw leaves the body, and
\* withTransaction aborts the transaction and rethrows.
TxBootstrap(r, throws) ==
  /\ pc[r] = "tx_boot"
  /\ LET id == cur[r].loaded.id.name
         c == [cur[r] EXCEPT !.tasks = @ \cup {"bootstrap"}, !.boots = @ + 1]
     IN /\ boots' = [boots EXCEPT
                       ![id].invoked = @ + 1,
                       ![id].completed = IF throws THEN @ ELSE @ + 1]
        /\ IF throws
             THEN /\ txw' = [txw EXCEPT ![r] = AbortedWrites(@)]
                  /\ Fail(r, c, Thrown("bootstrap"), "bootstrap")
                  /\ UNCHANGED <<rows, pendingDel, manifests, tables, everIn,
                                 destroyFailed,
                                 objs, calls>>
             ELSE /\ cur' = [cur EXCEPT ![r] = c]
                  /\ pc' = [pc EXCEPT ![r] = "tx_commit"]
                  /\ UNCHANGED <<storeVars, manifests, tables, batch, idx,
                                 errors, outcome, retries, lastOp, everIn,
                                 destroyFailed,
                                 objs, calls>>
  /\ UNCHANGED extVars

\* this.plugins[alias] = loaded, and the if-chain over manifest.type.
InsertLoaded(tbls, loaded) ==
  [t \in TableNames |->
     IF t = "plugins" \/ t = TableOfType(loaded.manifest.type)
       THEN Put(tbls[t], loaded)
       ELSE tbls[t]]

\* The body returned: withTransaction commits, registerPlugin stores the
\* LoadedPlugin in the tables and returns.
TxCommit(r) ==
  /\ pc[r] = "tx_commit"
  /\ rows' = rows \cup txw[r]
  /\ txw' = [txw EXCEPT ![r] = {}]
  /\ tables' = [tables EXCEPT ![r] = InsertLoaded(@, cur[r].loaded)]
  /\ everIn' = [everIn EXCEPT ![r] =
       @ \cup {<<t, cur[r].loaded.alias>> :
                 t \in {"plugins", TableOfType(cur[r].loaded.manifest.type)}}]
  /\ outcome' = [outcome EXCEPT ![r] =
                   Append(@, Outcome(r, cur[r], TRUE, "none", rows'))]
  /\ errors' = errors
  /\ Advance(r)
  /\ UNCHANGED <<pendingDel, manifests, boots, objs, destroyFailed, calls>>
  /\ UNCHANGED extVars

\* The commit fails with a transient error: withTransaction aborts and runs
\* the body again.
TxTransientError(r) ==
  /\ pc[r] = "tx_commit"
  /\ retries[r] < MaxRetries
  /\ retries' = [retries EXCEPT ![r] = @ + 1]
  /\ txw' = [txw EXCEPT ![r] = {}]
  /\ pc' = [pc EXCEPT ![r] = "tx_find"]
  /\ UNCHANGED <<rows, pendingDel, manifests, tables, everIn, destroyFailed,
                 objs, batch,
                 idx, errors, cur, outcome, boots, lastOp, calls>>
  /\ UNCHANGED extVars

\* -------------------------------------------------------- deletePlugin

\* A deletion that clears the alias from every table.
DeleteFromAll(tbls, alias) == [t \in TableNames |-> Remove(tbls[t], alias)]

\* delete this.plugins[alias]
DeleteFrom(tbls, alias) == [tbls EXCEPT !["plugins"] = Remove(@, alias)]

\* deletePlugin(alias): unknown alias, nothing; else the destroy task, the
\* deleteOne started in a transaction that is not awaited, and the flat
\* table's entry deleted.
DeletePlugin(r, alias, destroyThrows) ==
  /\ pc[r] = "idle"
  /\ LET plugin == Lookup(tables[r]["plugins"], alias)
     IN IF plugin = NoPlugin
          THEN /\ lastOp' = [lastOp EXCEPT ![r] =
                     [NoOp EXCEPT !.op = "deletePlugin", !.alias = alias]]
               /\ UNCHANGED <<pendingDel, tables, destroyFailed>>
          ELSE IF destroyThrows
          THEN /\ lastOp' = [lastOp EXCEPT ![r] =
                     [NoOp EXCEPT !.op = "deletePlugin", !.alias = alias,
                                  !.invoked = <<alias>>, !.throwers = {alias},
                                  !.error = alias]]
               /\ destroyFailed' = [destroyFailed EXCEPT ![alias] = TRUE]
               /\ UNCHANGED <<pendingDel, tables>>
          ELSE /\ lastOp' = [lastOp EXCEPT ![r] =
                     [NoOp EXCEPT !.op = "deletePlugin", !.alias = alias,
                                  !.invoked = <<alias>>, !.value = plugin]]
               /\ destroyFailed' = [destroyFailed EXCEPT ![alias] = FALSE]
               /\ pendingDel' = [pendingDel EXCEPT ![alias] = @ + 1]
               /\ tables' = [tables EXCEPT ![r] = DeleteFrom(@, alias)]
  /\ pc' = [pc EXCEPT ![r] = "done"]
  /\ UNCHANGED <<rows, txw, manifests, batch, idx, errors, cur, outcome,
                 retries, boots, everIn, objs>>
  /\ UNCHANGED extVars

\* The store runs a deleteOne({alias}) that a deletePlugin started.
ApplyDelete(alias) ==
  /\ pendingDel[alias] > 0
  /\ pendingDel' = [pendingDel EXCEPT ![alias] = @ - 1]
  /\ rows' = IF FindOne(alias) = {} THEN rows
             ELSE rows \ {CHOOSE s \in FindOne(alias) : TRUE}
  /\ UNCHANGED <<txw, manifests, tables, callVars, boots, lastOp, everIn,
                 destroyFailed,
                 objs, calls>>
  /\ UNCHANGED extVars

\* ------------------------------------------------- services and getters

RECURSIVE StartLoopSwallow(_, _, _, _)
\* startServices with its catch logging the error instead of throwing.
StartLoopSwallow(list, i, throwers, invoked) ==
  IF i > Len(list) THEN [invoked |-> invoked, error |-> None]
  ELSE IF list[i].manifest.runtime # "service"
    THEN StartLoopSwallow(list, i + 1, throwers, invoked)
  ELSE StartLoopSwallow(list, i + 1, throwers, Append(invoked, list[i].alias))

RECURSIVE StartLoop(_, _, _, _)
\* startServices' loop from the i-th entry of Object.values(this.plugins):
\* the aliases whose startService was invoked, and the alias of the error
\* thrown.
StartLoop(list, i, throwers, invoked) ==
  IF i > Len(list) THEN [invoked |-> invoked, error |-> None]
  ELSE IF list[i].manifest.runtime # "service"
    THEN StartLoop(list, i + 1, throwers, invoked)
  ELSE IF list[i].alias \in throwers
    THEN [invoked |-> Append(invoked, list[i].alias), error |-> list[i].alias]
  ELSE StartLoop(list, i + 1, throwers, Append(invoked, list[i].alias))

RECURSIVE StopLoopFailFast(_, _, _, _)
\* stopServices with its catch leaving the loop at the first throw.
StopLoopFailFast(list, i, throwers, invoked) ==
  IF i > Len(list) THEN [invoked |-> invoked, error |-> None]
  ELSE IF list[i].manifest.runtime # "service"
    THEN StopLoopFailFast(list, i + 1, throwers, invoked)
  ELSE IF list[i].alias \in throwers
    THEN [invoked |-> Append(invoked, list[i].alias), error |-> None]
  ELSE StopLoopFailFast(list, i + 1, throwers, Append(invoked, list[i].alias))

RECURSIVE StopLoop(_, _, _, _)
\* stopServices' loop: a throw is logged and the loop goes on.
StopLoop(list, i, throwers, invoked) ==
  IF i > Len(list) THEN [invoked |-> invoked, error |-> None]
  ELSE IF list[i].manifest.runtime # "service"
    THEN StopLoop(list, i + 1, throwers, invoked)
  ELSE StopLoop(list, i + 1, throwers, Append(invoked, list[i].alias))

StartServices(r, throwers) ==
  /\ pc[r] = "idle"
  /\ LET res == StartLoop(tables[r]["plugins"], 1, throwers, <<>>)
     IN lastOp' = [lastOp EXCEPT ![r] =
          [NoOp EXCEPT !.op = "startServices", !.invoked = res.invoked,
                       !.throwers = throwers, !.error = res.error]]
  /\ pc' = [pc EXCEPT ![r] = "done"]
  /\ UNCHANGED <<storeVars, manifests, tables, batch, idx, errors, cur,
                 outcome, retries, boots, everIn, destroyFailed, objs>>
  /\ UNCHANGED extVars

StopServices(r, throwers) ==
  /\ pc[r] = "idle"
  /\ LET res == StopLoop(tables[r]["plugins"], 1, throwers, <<>>)
     IN lastOp' = [lastOp EXCEPT ![r] =
          [NoOp EXCEPT !.op = "stopServices", !.invoked = res.invoked,
                       !.throwers = throwers, !.error = res.error]]
  /\ pc' = [pc EXCEPT ![r] = "done"]
  /\ UNCHANGED <<storeVars, manifests, tables, batch, idx, errors, cur,
                 outcome, retries, boots, everIn, destroyFailed, objs>>
  /\ UNCHANGED extVars

\* getPlugins(type?): the catalog of the flat table, all of it for
\* type = None.
GetPlugins(tbls, type) ==
  LET flat == tbls["plugins"]
      catalog == [n \in 1..Len(flat) |->
                    [alias |-> flat[n].alias, id |-> flat[n].id,
                     type |-> flat[n].manifest.type,
                     name |-> flat[n].manifest.name]]
  IN IF type = None THEN catalog
     ELSE SelectSeq(catalog, LAMBDA p : p.type = type)

\* getPluginById(id): Object.values(this.plugins).find(...)
GetPluginById(tbls, id) ==
  LET flat == tbls["plugins"]
      hits == {n \in 1..Len(flat) : flat[n].id = id}
  IN IF hits = {} THEN NoPlugin
     ELSE flat[CHOOSE n \in hits : \A m \in hits : n <= m]

\* getStorage(): Object.values(this.storage)[0]
GetStorage(tbls) ==
  IF tbls["storage"] = <<>> THEN NoPlugin ELSE tbls["storage"][1]

\* getDatabase(): Object.values(this.database)[0]
GetDatabase(tbls) ==
  IF tbls["database"] = <<>> THEN NoPlugin ELSE tbls["database"][1]

\* The alias-keyed getters and the table each reads.
Getters ==
  {"providers", "fileParsers", "enhancers", "generative", "textVectorizers",
   "imageVectorizers", "multimodalVectorizers", "rerankers"}

\* The aliases looked up: one that registers as a provider or as a storage
\* module, and one that no declaration carries.
GetterArgs == {"a1", "nonexistent"}

\* A getter that reads the flat table instead of its capability table.
GetterValueFlat(tbls, table, alias) == Lookup(tbls["plugins"], alias)

\* return this.<table>[alias]
GetterValue(tbls, table, alias) == Lookup(tbls[table], alias)

\* getProvider(alias), getFileParser(alias), ...
GetByAlias(r, table, alias) ==
  /\ pc[r] = "idle"
  /\ lastOp' = [lastOp EXCEPT ![r] =
       [NoOp EXCEPT !.op = table, !.alias = alias,
                    !.value = GetterValue(tables[r], table, alias)]]
  /\ pc' = [pc EXCEPT ![r] = "done"]
  /\ UNCHANGED <<storeVars, manifests, tables, batch, idx, errors, cur,
                 outcome, retries, boots, everIn, destroyFailed, objs>>
  /\ UNCHANGED extVars

\* The LoadedPlugins getInstance is handed: one of each manifest type, and
\* one of a type the switch does not know.
InstanceArgs ==
  {[NoPlugin EXCEPT !.alias = "a1",
                    !.manifest = [name |-> "m", type |-> t, runtime |-> None]] :
     t \in PluginTypes \cup {OtherType}}

\* getInstance(plugin)
GetInstance(r, plugin) ==
  /\ pc[r] = "idle"
  /\ lastOp' = [lastOp EXCEPT ![r] =
       [NoOp EXCEPT !.op = "getInstance", !.value = plugin,
                    !.instance = NewInstance(plugin)]]
  /\ pc' = [pc EXCEPT ![r] = "done"]
  /\ UNCHANGED <<storeVars, manifests, tables, batch, idx, errors, cur,
                 outcome, retries, boots, everIn, destroyFailed, objs>>
  /\ UNCHANGED extVars

\* The call has returned and its result has been read.
Return(r) ==
  /\ pc[r] = "done"
  /\ pc' = [pc EXCEPT ![r] = "idle"]
  /\ batch' = [batch EXCEPT ![r] = <<>>]
  /\ errors' = [errors EXCEPT ![r] = <<>>]
  /\ outcome' = [outcome EXCEPT ![r] = <<>>]
  /\ lastOp' = [lastOp EXCEPT ![r] = NoOp]
  /\ UNCHANGED <<storeVars, manifests, tables, idx, cur, retries, boots,
                 everIn, destroyFailed, objs, calls>>
  /\ UNCHANGED extVars

\* The host process restarts: a fresh PluginRegistry over the same store.
Restart(r) ==
  /\ pc[r] = "idle"
  /\ tables[r]["plugins"] # <<>> \/ \E a \in Aliases : manifests[r][a] # NoManifest
  /\ tables' = [tables EXCEPT ![r] = [t \in TableNames |-> <<>>]]
  /\ manifests' = [manifests EXCEPT ![r] = [a \in Aliases |-> NoManifest]]
  /\ everIn' = [everIn EXCEPT ![r] = {}]
  /\ UNCHANGED <<storeVars, callVars, boots, lastOp, objs, destroyFailed,
                 calls>>
  /\ UNCHANGED extVars

\* ------------------------------------------------------- Generative

RECURSIVE PushModels(_, _, _, _)
\* for (const model of models) { this._models[model.name] ||= [];
\* this._models[model.name].push({provider: plugin.alias, model}) }, from
\* the i-th model on.
PushModels(ms, alias, names, i) ==
  IF i > Len(names) THEN ms
  ELSE PushModels([ms EXCEPT ![names[i]] = Append(@, [provider |-> alias,
                                                      model |-> names[i]])],
                  alias, names, i + 1)

\* new Generative(ctx, plugins): the constructor calls init() and does not
\* await it; init runs up to its first await, the getSupportedModels of the
\* first of the generative plugins registered by then.
Construct(name) ==
  /\ genPc = "none"
  /\ settings' = name
  /\ initPlugins' = tables["R1"]["generative"]
  /\ initAt' = 1
  /\ genPc' = IF tables["R1"]["generative"] = <<>> THEN "ready" ELSE "init"
  /\ UNCHANGED <<models, genOp>>
  /\ UNCHANGED <<storeVars, callVars, manifests, tables, boots, lastOp,
                 everIn, destroyFailed, objs, calls, sourceVars>>

\* init, one turn of its loop: the await of getSupportedModels returns and
\* the plugin's models are pushed, or it throws and init ends there.
InitStep(throws) ==
  /\ genPc = "init"
  /\ IF throws
       THEN /\ genPc' = "failed"
            /\ UNCHANGED <<models, initAt>>
       ELSE LET plugin == initPlugins[initAt]
            IN /\ models' = PushModels(models, plugin.alias,
                                       SupportedModels(plugin.alias), 1)
               /\ initAt' = initAt + 1
               /\ genPc' = IF initAt + 1 > Len(initPlugins) THEN "ready"
                           ELSE "init"
  /\ UNCHANGED <<settings, initPlugins, genOp>>
  /\ UNCHANGED <<storeVars, callVars, manifests, tables, boots, lastOp,
                 everIn, destroyFailed, objs, calls, sourceVars>>

\* _getPlugin(alias): registry.getGenerative(alias), 'unknown generative
\* plugin' when absent, else a GenerativePluginInstance of it.
GetPlugin(tbls, alias) ==
  IF GetterValue(tbls, "generative", alias) = NoPlugin
    THEN [error |-> "unknown generative plugin", provider |-> None]
    ELSE [error |-> None, provider |-> alias]

\* models.find((m) => m.provider === config.name) ? config.name
\*   : models[0].provider
ProviderFor(ms, name) ==
  IF \E i \in 1..Len(ms) : ms[i].provider = name THEN name
  ELSE ms[1].provider

\* getGenerative(params), on the _models collected so far.
GetGenerativeResult(tbls, params) ==
  IF settings = None
    THEN [error |-> "generative module not configured", provider |-> None]
  ELSE IF params.alias # None THEN GetPlugin(tbls, params.alias)
  ELSE IF params.model = None THEN GetPlugin(tbls, settings)
  ELSE IF models[params.model] = <<>>
    THEN [error |-> "unknown model", provider |-> None]
  ELSE GetPlugin(tbls, ProviderFor(models[params.model], settings))

GetGenerative(params) ==
  /\ genPc # "none"
  /\ LET res == GetGenerativeResult(tables["R1"], params)
     IN genOp' = [alias |-> params.alias, model |-> params.model,
                  error |-> res.error, provider |-> res.provider]
  /\ UNCHANGED <<genPc, settings, initPlugins, initAt, models>>
  /\ UNCHANGED <<storeVars, callVars, manifests, tables, boots, lastOp,
                 everIn, destroyFailed, objs, calls, sourceVars>>

\* ---------------------------------------------------- SourceService

\* The state the SourceService leaves alone.
notSourceVars ==
  <<storeVars, callVars, manifests, tables, boots, lastOp, everIn,
    destroyFailed, objs, genVars>>

\* sourceModel.create({name, provider}): the document with the schema's
\* defaults, connected not set.
NewSource ==
  [exists |-> TRUE, connected |-> FALSE, credentials |-> None,
   entrypoint |-> None]

\* The request returns, or throws `error`.
Ended(q, error) ==
  req' = [req EXCEPT ![q].pc = "done", ![q].error = error]

\* create({body}): 'Provider not found' for an alias that getProvider does
\* not have, else a new document.
Create(q, provider) ==
  /\ req[q].pc \in {"idle", "done"}
  /\ IF GetterValue(tables["R1"], "providers", provider) = NoPlugin
       THEN /\ req' = [req EXCEPT ![q] =
                  [NoReq EXCEPT !.op = "create", !.pc = "done",
                                !.error = "BadRequestException"]]
            /\ UNCHANGED sources
       ELSE /\ Len(sources) < MaxSources
            /\ sources' = Append(sources, NewSource)
            /\ req' = [req EXCEPT ![q] =
                  [NoReq EXCEPT !.op = "create", !.pc = "done",
                                !.id = Len(sources) + 1]]
  /\ UNCHANGED <<listed, notSourceVars>>

\* A request on a source starts.
StartRequest(q, op, id) ==
  /\ req[q].pc \in {"idle", "done"}
  /\ req' = [req EXCEPT ![q] = [NoReq EXCEPT !.op = op, !.id = id,
                                             !.pc = "getSource"]]
  /\ UNCHANGED <<sources, listed, notSourceVars>>

\* _getSource(sourceId): findById, 'Source not found' when there is no
\* document, else the document as read and the provider of the source, whose
\* lookup can throw.
GetSource(q, getProviderThrows) ==
  /\ req[q].pc = "getSource"
  /\ IF req[q].id > Len(sources) \/ ~sources[req[q].id].exists
       THEN Ended(q, "BadRequestException")
     ELSE IF getProviderThrows THEN Ended(q, "Error")
     ELSE req' = [req EXCEPT ![q].pc = "act",
                             ![q].connected = sources[req[q].id].connected]
  /\ UNCHANGED <<sources, listed, notSourceVars, calls>>

\* connect, and initSource, rebuildSource, updateSource: a call of the
\* provider or of the indexing service, no write to the document.
NoWrite(q, throws) ==
  /\ req[q].pc = "act"
  /\ req[q].op = "connect"
  /\ Ended(q, IF throws THEN "Error" ELSE None)
  /\ UNCHANGED <<sources, listed, notSourceVars, calls>>

\* source.deleteOne()
DeleteOne(docs, id) == [docs EXCEPT ![id].exists = FALSE]

\* delete({sourceId})
Delete(q) ==
  /\ req[q].pc = "act"
  /\ req[q].op = "delete"
  /\ sources' = DeleteOne(sources, req[q].id)
  /\ Ended(q, None)
  /\ UNCHANGED <<listed, notSourceVars, calls>>

\* Any result of verifyConnection taken for a valid one.
VerifyAcceptsAny(res) == TRUE

\* if (!res.isValid) throw new BadRequestException('Invalid connection')
VerifyAccepts(res) == res.isValid

\* verifyConnection, the await of provider.verifyConnection: a throw and an
\* invalid result end in the catch, which throws BadRequestException.
VerifyCall(q, res) ==
  /\ req[q].pc = "act"
  /\ req[q].op = "verifyConnection"
  /\ IF res.throws \/ ~VerifyAccepts(res)
       THEN Ended(q, "BadRequestException")
       ELSE req' = [req EXCEPT ![q].pc = "update",
                               ![q].isValid = res.isValid,
                               ![q].credentials = res.credentials]
  /\ UNCHANGED <<sources, listed, notSourceVars, calls>>

\* source.updateOne({connected: true, ...(credentials && {credentials})}),
\* which changes the document if it is still there.
UpdateConnected(docs, id, credentials) ==
  IF ~docs[id].exists THEN docs
  ELSE [docs EXCEPT ![id].connected = TRUE,
                    ![id].credentials =
                       IF credentials = None THEN @ ELSE credentials]

\* verifyConnection, the await of source.updateOne: a throw of the store
\* ends in the catch.
VerifyUpdate(q, throws) ==
  /\ req[q].pc = "update"
  /\ req[q].op = "verifyConnection"
  /\ IF throws
       THEN Ended(q, "BadRequestException") /\ UNCHANGED sources
       ELSE /\ sources' = UpdateConnected(sources, req[q].id,
                                          req[q].credentials)
            /\ Ended(q, None)
  /\ UNCHANGED <<listed, notSourceVars, calls>>

\* listEntrypoints going on to the provider whatever the flag.
ListGateOpen(connected) == TRUE

\* if (!source.connected) throw ...: whether listEntrypoints goes on.
ListGate(connected) == connected

\* listEntrypoints: the gate on the document as read, then
\* provider.listEntrypointOptions, whose promise is returned.
ListEntrypoints(q) ==
  /\ req[q].pc = "act"
  /\ req[q].op = "listEntrypoints"
  /\ IF ListGate(req[q].connected)
       THEN listed' = listed \cup {req[q].id} /\ Ended(q, None)
       ELSE Ended(q, "BadRequestException") /\ UNCHANGED listed
  /\ UNCHANGED <<sources, notSourceVars, calls>>

\* setEntrypoint: refused for a source that is initialized or being indexed;
\* else provider.handleEntrypointUpdate and the update of the entrypoint.
SetEntrypoint(q, refused, throws) ==
  /\ req[q].pc = "act"
  /\ req[q].op = "setEntrypoint"
  /\ IF refused \/ throws
       THEN Ended(q, "BadRequestException") /\ UNCHANGED sources
       ELSE /\ sources' = IF sources[req[q].id].exists
                    THEN [sources EXCEPT ![req[q].id].entrypoint = "e1"]
                    ELSE sources
            /\ Ended(q, None)
  /\ UNCHANGED <<listed, notSourceVars, calls>>

\* One step of a request in progress.
RequestStep(q) ==
  \/ \E throws \in BOOLEAN : GetSource(q, throws)
  \/ \E throws \in BOOLEAN : NoWrite(q, throws)
  \/ Delete(q)
  \/ \E res \in VerifyOutcomes : VerifyCall(q, res)
  \/ \E throws \in BOOLEAN : VerifyUpdate(q, throws)
  \/ ListEntrypoints(q)
  \/ \E refused, throws \in BOOLEAN : SetEntrypoint(q, refused, throws)

\* ------------------------------------------------------ specifications

\* One step of a register call in progress.
RegisterStep(r) ==
  \/ Phase1(r)
  \/ RegisterPluginManifest(r)
  \/ \E throws \in BOOLEAN : RunnerLoad(r, throws)
  \/ \E throws \in BOOLEAN : ValidateConfig(r, throws)
  \/ \E throws \in BOOLEAN : RunnerInitialize(r, throws)
  \/ TxFindOne(r)
  \/ TxSave(r)
  \/ \E throws \in BOOLEAN : TxBootstrap(r, throws)
  \/ TxCommit(r)
  \/ Return(r)

\* A call starts on registry r: a register of one declaration, or another
\* operation.
StartCall(r) ==
  \/ \E plugin \in Decls : StartRegister(r, <<plugin>>)
  \/ \E alias \in Aliases, throws \in BOOLEAN : DeletePlugin(r, alias, throws)
  \/ \E throwers \in SUBSET Aliases : StartServices(r, throwers)
  \/ \E throwers \in SUBSET Aliases : StopServices(r, throwers)
  \/ \E table \in Getters, alias \in GetterArgs : GetByAlias(r, table, alias)
  \/ \E plugin \in InstanceArgs : GetInstance(r, plugin)

\* One host process, its calls one after the other, and its restarts.
Next ==
  \/ Budget /\ StartCall("R1")
  \/ RegisterStep("R1")
  \/ Restart("R1")
  \/ \E alias \in Aliases : ApplyDelete(alias)

Spec == Init /\ [][Next]_vars

\* One host process registers a batch, on a fresh store or after a register
\* of one declaration.
NextBatch ==
  \/ /\ calls = 0
     /\ calls' = 1
     /\ \E plugin \in Decls : StartRegister("R1", <<plugin>>)
  \/ /\ calls \in {0, 1}
     /\ calls' = 2
     /\ \E plugins \in Batches : StartRegister("R1", plugins)
  \/ RegisterStep("R1")

SpecBatch == Init /\ [][NextBatch]_vars

\* The declarations the racing hosts register: those of a1, and one of a2.
RaceDecls == {d \in Decls : d.alias = "a1" \/ d.path = "pProvider"} \ {d \in Decls : d.alias = "7"}

\* Host processes racing to register one declaration each on the store.
NextRace ==
  \/ /\ calls < MaxRaceCalls
     /\ calls' = calls + 1
     /\ \E r \in Reg : \E plugin \in RaceDecls : StartRegister(r, <<plugin>>)
  \/ \E r \in Reg : RegisterStep(r)
  \/ \E r \in Reg : TxTransientError(r)

SpecRace == Init /\ [][NextRace]_vars

\* The declaration registered and deleted over and over.
DeleteDecl == [alias |-> "a1", path |-> "pStorage", config |-> CfgUndefined]

\* One host process registers and deletes one alias, call after call, while
\* the store runs the deletions that deletePlugin started.
NextDelete ==
  \/ /\ calls < MaxDeleteCalls
     /\ calls' = calls + 1
     /\ \/ StartRegister("R1", <<DeleteDecl>>)
        \/ \E throws \in BOOLEAN :
             DeletePlugin("R1", DeleteDecl.alias, throws)
  \/ RegisterStep("R1")
  \/ ApplyDelete(DeleteDecl.alias)

SpecDelete == Init /\ [][NextDelete]_vars

\* One host process registers generative plugins and constructs a
\* Generative, whose init and getGenerative calls interleave with the rest.
NextGenerative ==
  \/ /\ calls < MaxGenCalls
     /\ calls' = calls + 1
     /\ \E plugin \in GenDecls : StartRegister("R1", <<plugin>>)
  \/ RegisterStep("R1")
  \/ \E name \in GenSettings : Construct(name)
  \/ \E throws \in BOOLEAN : InitStep(throws)
  \/ \E params \in GenParams : GetGenerative(params)

SpecGenerative == Init /\ [][NextGenerative]_vars

\* The host registers the provider plugin while the SourceService serves
\* requests, up to two at a time.
NextSource ==
  \/ /\ calls < MaxSourceCalls
     /\ calls' = calls + 1
     /\ pc["R1"] = "idle"
     /\ tables["R1"]["plugins"] = <<>>
     /\ StartRegister("R1", <<ProviderDecl>>)
  \/ RegisterStep("R1")
  \/ /\ calls < MaxSourceCalls
     /\ calls' = calls + 1
     /\ \E q \in Requests :
          \/ Create(q, ProviderDecl.alias)
          \/ \E op \in SourceOps, id \in 1..MaxSources :
               StartRequest(q, op, id)
  \/ \E q \in Requests : RequestStep(q)

SpecSource == Init /\ [][NextSource]_vars

\* ---------------------------------------------------------- properties

\* The call `op` on registry r has returned and its result stands.
Returned(r, op) == pc[r] = "done" /\ lastOp[r].op = op

Range(seq) == {seq[i] : i \in 1..Len(seq)}

\* The positions of the service plugins in a flat table.
ServicePos(list) ==
  {i \in 1..Len(list) : list[i].manifest.runtime = "service"}

C2_AtMostOneBootstrap ==
  \A a \in Aliases :
    (\A r \in Reg : /\ pc[r] # "idle"
                    /\ Len(batch[r]) = 1
                    /\ batch[r][1].alias = a)
    => /\ boots[a].invoked <= 1
       /\ Cardinality(FindOne(a)) <= 1

\* C3: a register of N declarations with distinct aliases, exactly one of
\* which fails getManifest while the others register without a throw:
\* the call returns (it does not throw), the N - 1 others are in the flat
\* table and in the capability table of their type, and the errors returned
\* hold exactly one entry, which names the failing declaration.
C3_PartialFailureIsolation ==
  \A r \in Reg :
    Returned(r, "register") =>
      LET b == batch[r]
          N == Len(b)
          bad == {i \in 1..N : ManifestOf(b[i].path) = NoManifest}
          good == (1..N) \ bad
      IN (/\ \A i, j \in 1..N : i # j => b[i].alias # b[j].alias
          /\ Cardinality(bad) = 1
          /\ \A j \in good : j <= Len(outcome[r]) =>
                               outcome[r][j].threw = "none")
         =>
         /\ Len(outcome[r]) = N
         /\ \A j \in good :
              LET p == Lookup(tables[r]["plugins"], b[j].alias)
                  t == TableOfType(ManifestOf(b[j].path).type)
              IN /\ p # NoPlugin
                 /\ p.runner.obj = outcome[r][j].obj
                 /\ p.runner.pluginPath = b[j].path
                 /\ Lookup(tables[r][t], b[j].alias) = p
         /\ \A j \in bad :
              /\ ~outcome[r][j].ok
              /\ Len(errors[r]) = 1
              /\ errors[r][1].alias = b[j].alias
              /\ errors[r][1].path = b[j].path

\* A batch of two has returned: the first declaration has no manifest, the
\* second is registered, one error.
C3_Witness ==
  /\ Returned("R1", "register")
  /\ Len(batch["R1"]) = 2
  /\ batch["R1"][1].path = "pBroken"
  /\ batch["R1"][2].alias = "a1"
  /\ Len(outcome["R1"]) = 2
  /\ outcome["R1"][2].ok
  /\ Len(errors["R1"]) = 1
  /\ "a1" \in Keys(tables["R1"]["plugins"])

\* C4: startServices invokes startService on the service plugins in the
\* flat table's order; at the first that throws it throws that error, and
\* no service plugin after it is invoked; if none throws, all are invoked
\* and the call returns.
C4_StartServicesFailFast ==
  \A r \in Reg :
    Returned(r, "startServices") =>
      LET list == tables[r]["plugins"]
          svc == ServicePos(list)
          bad == {i \in svc : list[i].alias \in lastOp[r].throwers}
          inv == Range(lastOp[r].invoked)
      IN IF bad = {}
           THEN /\ lastOp[r].error = None
                /\ inv = {list[i].alias : i \in svc}
           ELSE LET k == CHOOSE i \in bad : \A j \in bad : i <= j
                IN /\ lastOp[r].error = list[k].alias
                   /\ \A i \in svc : (list[i].alias \in inv) <=> (i <= k)

\* startServices threw at a service plugin that has another after it.
C4_Witness ==
  /\ Returned("R1", "startServices")
  /\ lastOp["R1"].error # None
  /\ LET list == tables["R1"]["plugins"]
     IN \E i, j \in ServicePos(list) :
          /\ i < j
          /\ list[i].alias = lastOp["R1"].error
          /\ list[j].alias \notin Range(lastOp["R1"].invoked)

\* C5: stopServices invokes stopService on every service plugin, once each
\* and in the flat table's order, whichever of them throw, and returns
\* without an error.
C5_StopServicesBestEffort ==
  \A r \in Reg :
    Returned(r, "stopServices") =>
      LET list == tables[r]["plugins"]
          svc == ServicePos(list)
          inv == lastOp[r].invoked
      IN /\ lastOp[r].error = None
         /\ Len(inv) = Cardinality(svc)
         /\ Range(inv) = {list[i].alias : i \in svc}
         /\ \A m, n \in 1..Len(inv) :
              m < n =>
                \E i, j \in svc :
                  i < j /\ list[i].alias = inv[m] /\ list[j].alias = inv[n]

\* stopServices returned after a service plugin threw and a later one was
\* stopped all the same.
C5_Witness ==
  /\ Returned("R1", "stopServices")
  /\ Len(lastOp["R1"].invoked) = 2
  /\ lastOp["R1"].invoked[1] \in lastOp["R1"].throwers
  /\ lastOp["R1"].error = None

\* C6: whenever no call is in progress, after any sequence of register and
\* deletePlugin calls, each identity either has a state row and its
\* bootstrap has run, or has no state row and its bootstrap was never
\* invoked.
C6_BootstrapAtomicity ==
  Idle =>
    \A a \in Aliases :
      \/ FindOne(a) # {} /\ boots[a].invoked >= 1
      \/ FindOne(a) = {} /\ boots[a].invoked = 0

\* C6, as the code has it: in every state, an identity that has a state row
\* has had its bootstrap run to completion.  (An identity without a row may
\* have been bootstrapped: the bootstrap threw, or the row was deleted.)
C6_RowImpliesBootstrapped ==
  \A a \in Aliases :
    FindOne(a) # {} => boots[a].completed >= 1

\* An identity has its row after a bootstrap that threw and one that
\* completed.
C6_Witness ==
  /\ Idle
  /\ FindOne("a1") # {}
  /\ boots["a1"] = [invoked |-> 2, completed |-> 1]

\* C7: when bootstrap throws in a registration of an alias that has no
\* state row, then once register has returned the alias has no state row,
\* is a key of neither the flat table nor any capability table, and the
\* errors returned have an entry for it.  (The row being absent, a later
\* register of the alias runs the bootstrap again.)
C7_FailedBootstrapNoTrace ==
  \A r \in Reg :
    Returned(r, "register") =>
      \A i \in 1..Len(outcome[r]) :
        LET o == outcome[r][i]
        IN (o.threw = "bootstrap" /\ o.rowBefore = "absent") =>
             /\ FindOne(o.alias) = {}
             /\ \A t \in TableNames : o.alias \notin Keys(tables[r][t])
             /\ \E n \in 1..Len(errors[r]) : errors[r][n].alias = o.alias

\* C8: in every state, each alias is a key of at most one capability table,
\* and that table is the one of the manifest type of the entry stored under
\* the alias in the flat table.
C8_CapabilityIndex ==
  \A r \in Reg : \A a \in Aliases :
    LET held == {t \in CapTables : a \in Keys(tables[r][t])}
    IN /\ Cardinality(held) <= 1
       /\ \A t \in held :
            t = TableOfType(Lookup(tables[r]["plugins"], a).manifest.type)

\* C9: for a declaration of a module with a config schema that got as far
\* as the schema step: if the resolved config fails the schema, the errors
\* returned have an entry for the alias, neither initialize nor bootstrap
\* was invoked, no row was saved and no table holds the runner loaded for
\* the declaration; if it passes, initialize saw the schema's parsed output
\* as the runner's pluginConfig.
C9_ConfigValidationGate ==
  \A r \in Reg :
    Returned(r, "register") =>
      \A i \in 1..Len(outcome[r]) :
        LET o == outcome[r][i]
            d == batch[r][i]
            resolved == defaultConfigLoader(d)
        IN (HasConfigSchema(d.path)
              /\ o.threw \notin {"getManifest", "load", "getSchema"}) =>
             IF ~SchemaAccepts(resolved)
               THEN /\ ~o.ok
                    /\ o.threw = "config"
                    /\ \E n \in 1..Len(errors[r]) :
                         /\ errors[r][n].alias = d.alias
                         /\ errors[r][n].path = d.path
                         /\ errors[r][n].message = "Invalid plugin config"
                    /\ o.tasks \cap {"initialize", "bootstrap"} = {}
                    /\ ~o.saved
                    /\ \A t \in TableNames :
                         \A n \in 1..Len(tables[r][t]) :
                           tables[r][t][n].runner.obj # o.obj
               ELSE /\ "initialize" \in o.tasks
                    /\ o.cfgAtInit = SchemaParse(resolved)
                    /\ \A t \in TableNames :
                         \A n \in 1..Len(tables[r][t]) :
                           tables[r][t][n].runner.obj = o.obj =>
                             tables[r][t][n].runner.pluginConfig
                               = SchemaParse(resolved)

\* A batch of two has returned: the first declaration's config failed the
\* schema, the second's passed and the runner holds the parsed config, which
\* differs from the resolved one.
C9_Witness ==
  /\ Returned("R1", "register")
  /\ Len(outcome["R1"]) = 2
  /\ batch["R1"][1].config = CfgBad
  /\ outcome["R1"][1].threw = "config"
  /\ batch["R1"][2].config = CfgGood
  /\ outcome["R1"][2].ok
  /\ outcome["R1"][2].cfgAtInit = SchemaParse(CfgGood)
  /\ SchemaParse(CfgGood) # CfgGood
  /\ Len(errors["R1"]) = 1

C14_LastRegistrationWins ==
  \A r \in Reg :
    Returned(r, "register") =>
      LET flat == tables[r]["plugins"]
          o == outcome[r]
      IN /\ \A m, n \in 1..Len(flat) : flat[m].alias = flat[n].alias => m = n
         /\ \A i \in 1..Len(o) :
              (o[i].ok /\ ~\E j \in (i + 1)..Len(o) :
                             o[j].ok /\ o[j].alias = o[i].alias)
              => LET p == Lookup(flat, o[i].alias)
                 IN /\ p.runner.obj = o[i].obj
                    /\ p.runner.pluginPath = batch[r][i].path
                    /\ p.manifest = ManifestOf(batch[r][i].path)

\* a1 was registered by an earlier call as a provider and is registered
\* twice in this batch, last as a storage module: the flat table's one entry
\* is the third runner's.
C14_Witness ==
  /\ Returned("R1", "register")
  /\ Len(outcome["R1"]) = 2
  /\ outcome["R1"][1].alias = "a1" /\ outcome["R1"][2].alias = "a1"
  /\ outcome["R1"][1].ok /\ outcome["R1"][2].ok
  /\ outcome["R1"][1].flatBefore
  /\ batch["R1"][1].path = "pProvider" /\ batch["R1"][2].path = "pStorage"
  /\ Len(tables["R1"]["plugins"]) = 1
  /\ tables["R1"]["plugins"][1].runner.obj = 3
  /\ tables["R1"]["plugins"][1].manifest.type = "storage"

\* The deletePlugin that has returned on r found the alias, ran destroy
\* without a throw and went on to delete.
Deleted(r) ==
  /\ Returned(r, "deletePlugin")
  /\ lastOp[r].value # NoPlugin
  /\ lastOp[r].error = None

\* C15: a deletePlugin of an unknown alias invokes no task; one of an active
\* alias has invoked destroy, and when it returns the alias is out of the
\* flat table and the alias's state row is already absent.
C15_DeleteOrdering ==
  \A r \in Reg :
    Returned(r, "deletePlugin") =>
      /\ lastOp[r].value = NoPlugin /\ lastOp[r].error = None
           => lastOp[r].invoked = <<>>
      /\ Deleted(r) =>
           /\ lastOp[r].invoked = <<lastOp[r].alias>>
           /\ lastOp[r].alias \notin Keys(tables[r]["plugins"])
           /\ FindOne(lastOp[r].alias) = {}

\* C16, as the claim has it: after a deletePlugin that succeeded, of a
\* plugin of type T, the alias is not in getPlugins(), getPluginById of its
\* id is absent, the table of T still holds the plugin, the alias-keyed
\* getter of T returns it, and, T being storage, getStorage() returns it.
C16_StaleEntryAnyGetter ==
  \A r \in Reg :
    Deleted(r) =>
      LET p == lastOp[r].value
          T == TableOfType(p.manifest.type)
      IN /\ \A n \in 1..Len(GetPlugins(tables[r], None)) :
              GetPlugins(tables[r], None)[n].alias # p.alias
         /\ GetPluginById(tables[r], p.id) = NoPlugin
         /\ Lookup(tables[r][T], p.alias) = p
         /\ T \in Getters => GetterValue(tables[r], T, p.alias) = p
         /\ T = "storage" => GetStorage(tables[r]) = p

\* C16, as the code has it: the same, except that getStorage() returns the
\* deleted plugin only when it is the first entry of the storage table, and
\* the first entry, another plugin, otherwise.
C16_StaleCapabilityEntry ==
  \A r \in Reg :
    Deleted(r) =>
      LET p == lastOp[r].value
          T == TableOfType(p.manifest.type)
      IN /\ \A n \in 1..Len(GetPlugins(tables[r], None)) :
              GetPlugins(tables[r], None)[n].alias # p.alias
         /\ GetPluginById(tables[r], p.id) = NoPlugin
         /\ Lookup(tables[r][T], p.alias) = p
         /\ T \in Getters => GetterValue(tables[r], T, p.alias) = p
         /\ T = "storage" =>
              /\ GetStorage(tables[r]) = tables[r]["storage"][1]
              /\ (GetStorage(tables[r]) = p)
                   <=> (tables[r]["storage"][1].alias = p.alias)

\* deletePlugin of the second of two storage plugins has returned: the
\* storage table still holds it, and getStorage() returns the first.
C16_Witness ==
  /\ Deleted("R1")
  /\ lastOp["R1"].value.manifest.type = "storage"
  /\ Len(tables["R1"]["storage"]) = 2
  /\ tables["R1"]["storage"][2] = lastOp["R1"].value
  /\ GetStorage(tables["R1"]) # lastOp["R1"].value
  /\ Len(tables["R1"]["plugins"]) = 1

\* The config loader of the declaration in progress on r has been invoked.
ConfigLoaded(r) == pc[r] \notin {"idle", "done", "phase1", "rp_manifest"}

\* C17, as the claim has it: once the config loader of a declaration has
\* been invoked in phase 2, the manifest lookup it was handed returned, for
\* every declaration of the batch whose getManifest succeeds, that
\* declaration's manifest under its alias.
C17_ManifestOfEveryDeclaration ==
  \A r \in Reg :
    ConfigLoaded(r) =>
      \A j \in 1..Len(batch[r]) :
        ManifestOf(batch[r][j].path) # NoManifest =>
          cur[r].seen[batch[r][j].alias] = ManifestOf(batch[r][j].path)

\* C17, as the code has it: the same for a batch whose aliases are
\* distinct.  (The cache is keyed by alias: of two declarations of one
\* alias the lookup returns the manifest of one.)
C17_ManifestsBeforeConfigs ==
  \A r \in Reg :
    (/\ ConfigLoaded(r)
     /\ \A i, j \in 1..Len(batch[r]) :
          i # j => batch[r][i].alias # batch[r][j].alias)
    => \A j \in 1..Len(batch[r]) :
         ManifestOf(batch[r][j].path) # NoManifest =>
           cur[r].seen[batch[r][j].alias] = ManifestOf(batch[r][j].path)

\* The first declaration of a batch of two has its config; the lookup gave
\* the manifest of the second, which no table holds yet.
C17_Witness ==
  /\ pc["R1"] = "rp_load"
  /\ idx["R1"] = 1
  /\ Len(batch["R1"]) = 2
  /\ batch["R1"][1].alias = "a1"
  /\ batch["R1"][2].alias = "a2"
  /\ cur["R1"].seen["a2"] = ManifestOf(batch["R1"][2].path)
  /\ cur["R1"].seen["a2"] # NoManifest
  /\ tables["R1"]["plugins"] = <<>>

\* C18: while phase 2 of a register call runs, the declarations before the
\* one in progress have all finished (each has its outcome) and none after
\* it has begun; the first step of a declaration starts with no locals and
\* no transaction write of an earlier one left; and the only write an open
\* transaction of the call holds is the row of the declaration in progress.
C18_Phase2Sequential ==
  \A r \in Reg :
    /\ pc[r] \notin {"idle", "done", "phase1"} =>
         /\ idx[r] \in 1..Len(batch[r])
         /\ Len(outcome[r]) = idx[r] - 1
         /\ \A k \in 1..Len(outcome[r]) :
              /\ outcome[r][k].alias = batch[r][k].alias
              /\ outcome[r][k].path = batch[r][k].path
         /\ pc[r] = "rp_manifest" => cur[r] = NoCur /\ txw[r] = {}
         /\ \A s \in txw[r] :
              /\ pc[r] \in {"tx_boot", "tx_commit"}
              /\ s._id = IdOf(batch[r][idx[r]])
         /\ Cardinality(txw[r]) <= 1
    /\ pc[r] = "done" /\ lastOp[r].op = "register" =>
         Len(outcome[r]) = Len(batch[r]) /\ txw[r] = {}

\* The second declaration of a batch is about to start after the first's
\* bootstrap threw: the first's transaction is closed, its write gone.
C18_Witness ==
  /\ pc["R1"] = "rp_manifest"
  /\ idx["R1"] = 2
  /\ Len(outcome["R1"]) = 1
  /\ outcome["R1"][1].threw = "bootstrap"
  /\ outcome["R1"][1].saved
  /\ txw["R1"] = {}
  /\ rows = {}

\* The tasks done are a prefix of load, initialize, bootstrap.
InOrder(tasks) ==
  /\ "bootstrap" \in tasks => "initialize" \in tasks
  /\ "initialize" \in tasks => "load" \in tasks

\* Where a declaration in progress on r stands, and what it has done.
LifecycleAt(r) ==
  /\ InOrder(cur[r].tasks)
  /\ pc[r] = "rp_load" => cur[r].tasks = {} /\ cur[r].loaded.manifest # NoManifest
  /\ pc[r] \in {"rp_schema", "rp_init"} => cur[r].tasks = {"load"}
  /\ pc[r] = "rp_init" =>
       (HasConfigSchema(Plugin(r).path) => SchemaAccepts(cur[r].config))
  /\ pc[r] \in {"tx_find", "tx_save"} =>
       cur[r].tasks = {"load", "initialize"}
  /\ pc[r] = "tx_boot" => cur[r].tasks = {"load", "initialize"} /\ cur[r].saved
  /\ \A i \in 1..Len(outcome[r]) :
       LET o == outcome[r][i]
       IN /\ InOrder(o.tasks)
          /\ o.threw = "getManifest" => o.tasks = {}
          /\ o.threw \in {"load", "getSchema", "config"} => o.tasks = {"load"}
          /\ o.threw = "initialize" =>
               o.tasks = {"load", "initialize"} /\ ~o.saved /\ o.boots = 0
          /\ o.ok <=> o.threw = "none"
          /\ o.ok => /\ {"load", "initialize"} \subseteq o.tasks
                     /\ o.saved <=> "bootstrap" \in o.tasks
          /\ \A t \in TableNames : \A n \in 1..Len(tables[r][t]) :
               tables[r][t][n].runner.obj = o.obj => o.ok

\* C19: in every step of a register call, the declaration in progress has
\* done its steps in the order manifest, load, config validation,
\* initialize, bootstrap; bootstrap is not invoked after an initialize that
\* failed; and the flat and capability tables change only in the step that
\* ends a declaration all of whose steps succeeded, so that a declaration
\* that fails at any step leaves them as they were before it.
C19_LifecycleOrder ==
  [][\A r \in Reg :
       /\ LifecycleAt(r)'
       /\ tables'[r] # tables[r] =>
            /\ pc[r] = "tx_commit"
            /\ Len(outcome'[r]) = Len(outcome[r]) + 1
            /\ outcome'[r][Len(outcome'[r])].ok
            /\ \A t \in TableNames :
                 tables'[r][t] # tables[r][t] =>
                   t \in {"plugins",
                          TableOfType(cur[r].loaded.manifest.type)}
       /\ (Len(outcome'[r]) = Len(outcome[r]) + 1
             /\ ~outcome'[r][Len(outcome'[r])].ok) => tables'[r] = tables[r]
    ]_vars

\* A batch has returned whose first declaration registered and whose
\* second failed at initialize: the tables hold the first only.
C19_Witness ==
  /\ Returned("R1", "register")
  /\ Len(outcome["R1"]) = 2
  /\ outcome["R1"][1].ok
  /\ outcome["R1"][1].tasks = {"load", "initialize", "bootstrap"}
  /\ outcome["R1"][2].threw = "initialize"
  /\ outcome["R1"][2].alias # outcome["R1"][1].alias
  /\ Keys(tables["R1"]["plugins"]) = {outcome["R1"][1].alias}
  /\ Cardinality(rows) = 1

\* C20: when startServices has returned, the plugins whose startService it
\* invoked were invoked in the order in which they were registered: of two
\* of them, the one whose runner was loaded first comes first.
C20_StartInRegistrationOrder ==
  \A r \in Reg :
    Returned(r, "startServices") =>
      LET inv == lastOp[r].invoked
      IN \A m, n \in 1..Len(inv) :
           m < n => Lookup(tables[r]["plugins"], inv[m]).runner.obj
                      < Lookup(tables[r]["plugins"], inv[n]).runner.obj

\* C21: between calls, getStorage() (resp. getDatabase()) is absent when no
\* storage (resp. database) plugin was registered on the registry, and
\* otherwise it is, of the plugins in the storage (resp. database) table,
\* the one that was registered earliest.
C21_FirstRegisteredEntry ==
  \A r \in Reg :
    pc[r] = "idle" =>
      /\ \A t \in {"storage", "database"} :
           LET got == IF t = "storage" THEN GetStorage(tables[r])
                      ELSE GetDatabase(tables[r])
           IN /\ (\A a \in Aliases : <<t, a>> \notin everIn[r]) =>
                   got = NoPlugin
              /\ \A n \in 1..Len(tables[r][t]) :
                   got.runner.obj <= tables[r][t][n].runner.obj

\* C22: whenever no call is in progress on a registry, every alias of its
\* flat table has a persisted state row.
C22_ActiveImpliesPersisted ==
  \A r \in Reg :
    pc[r] = "idle" =>
      \A a \in Keys(tables[r]["plugins"]) : FindOne(a) # {}

\* C23: a deletePlugin of an active alias whose destroy throws raises the
\* error and leaves the state rows, the deletions under way and all the
\* tables as they were, the alias still in the flat table; and from then on,
\* until a deletePlugin of the alias succeeds, no register of the alias
\* invokes bootstrap.
C23_FailedDestroyAllOrNothing ==
  [][/\ \A r \in Reg :
          (/\ pc[r] = "idle"
           /\ pc'[r] = "done"
           /\ lastOp'[r].op = "deletePlugin"
           /\ lastOp'[r].invoked # <<>>
           /\ lastOp'[r].throwers # {}) =>
            /\ lastOp'[r].error = lastOp'[r].alias
            /\ rows' = rows
            /\ pendingDel' = pendingDel
            /\ tables' = tables
            /\ lastOp'[r].alias \in Keys(tables'[r]["plugins"])
     /\ \A a \in Aliases :
          destroyFailed[a] => boots'[a].invoked = boots[a].invoked
    ]_vars

\* The generative plugins of the registry that list model m, in the order
\* of the table.
Listing(tbls, m) ==
  SelectSeq(tbls["generative"],
            LAMBDA p : m \in Range(SupportedModels(p.alias)))

\* C24: a getGenerative({model: m}) on a Generative with the module
\* configured, whose init has not failed and on whose registry no
\* generative plugin was registered since its construction, returns the
\* default provider's instance when the default provider is a registered
\* generative plugin that lists m, else the instance of the
\* earliest-registered generative plugin that lists m, and raises 'unknown
\* model' when no registered generative plugin lists m, whether init has
\* ended or not.
C24_ProviderSelection ==
  [][(/\ genOp' # genOp
      /\ genPc \in {"init", "ready"}
      /\ initPlugins = tables["R1"]["generative"]
      /\ settings # None
      /\ genOp'.alias = None
      /\ genOp'.model # None) =>
       LET listing == Listing(tables["R1"], genOp'.model)
       IN IF listing = <<>>
            THEN genOp'.error = "unknown model"
          ELSE IF \E i \in 1..Len(listing) : listing[i].alias = settings
            THEN genOp'.error = None /\ genOp'.provider = settings
          ELSE /\ genOp'.error = None
               /\ \E i \in 1..Len(listing) :
                    /\ listing[i].alias = genOp'.provider
                    /\ \A j \in 1..Len(listing) :
                         listing[i].runner.obj <= listing[j].runner.obj
    ]_vars

\* Request q is a verifyConnection whose provider call is answered in this
\* step, and the request ends in it.
VerificationFails(q) ==
  /\ req[q].op = "verifyConnection"
  /\ req[q].pc = "act"
  /\ req'[q].pc = "done"

\* C25: in every step of the SourceService, a source's connected flag
\* becomes true only in the update of a verifyConnection request on that
\* source whose provider returned isValid = true; a verifyConnection that
\* ends at an invalid or throwing verification raises BadRequestException
\* and leaves every source document unchanged; and listEntrypointOptions is
\* called only by a listEntrypoints request on a source whose connected
\* flag is true.
C25_ConnectionGate ==
  [][/\ \A id \in 1..Len(sources') :
          (/\ sources'[id].connected
           /\ id > Len(sources) \/ ~sources[id].connected) =>
            \E q \in Requests :
              /\ req[q].op = "verifyConnection"
              /\ req[q].pc = "update"
              /\ req[q].id = id
              /\ req[q].isValid
              /\ req'[q].pc = "done"
              /\ req'[q].error = None
     /\ \A q \in Requests :
          VerificationFails(q) =>
            req'[q].error = "BadRequestException" /\ sources' = sources
     /\ listed' # listed =>
          \E q \in Requests :
            /\ req[q].op = "listEntrypoints"
            /\ req[q].pc = "act"
            /\ listed' = listed \cup {req[q].id}
            /\ sources[req[q].id].connected
    ]_vars

\* A verification of a source that was not connected has ended in a
\* BadRequestException; after it a valid one connected the source, and the
\* source's entrypoints were listed.
C25_Witness ==
  /\ Len(sources) = 1
  /\ sources[1].connected
  /\ sources[1].credentials = "c1"
  /\ 1 \in listed
  /\ \E q \in Requests :
       /\ req[q].op = "verifyConnection"
       /\ req[q].id = 1
       /\ req[q].pc = "done"
       /\ ~req[q].connected
       /\ req[q].error = "BadRequestException"

====
